---- MODULE Spec2Model ----
(***************************************************************************)
(* Model of the data_chain accumulation engine: SectionChain::add_vote     *)
(* (src/chain/section_chain.rs) and DataChain::add_node_block              *)
(* (src/chain/data_chain.rs), with the block, proof and vote types they    *)
(* are built on, and of the whole-chain operations mark_blocks_valid,      *)
(* prune, validate_ownership and merge_chain of both chain types.  A       *)
(* behaviour follows one chain object; `kind` records which of the two     *)
(* chain types was constructed.                                            *)
(***************************************************************************)
EXTENDS Integers, Sequences, FiniteSets, TLC

\* ------------------------------------------------------------------ bounds
\* number of key pairs that sign votes
NKeys == 3
\* longest chain the accumulation actions build
MaxChain == 3
\* number of calls of add_vote / add_node_block in one behaviour
MaxCalls == 4

Keys == 1..NKeys

\* group sizes a chain is constructed with: 0 is Default::default(), 999 the
\* value of the tests, 2 a size the modelled groups can reach
GroupSizes == {0, 2, 999}

\* ------------------------------------------------------------- identifiers
\* LinkDescriptor of the SectionChain (chain/link_descriptor.rs)
NodeLost(k) == [tag |-> "NodeLost", key |-> k, name |-> 0]
NodeGained(k) == [tag |-> "NodeGained", key |-> k, name |-> 0]
Split == [tag |-> "Split", key |-> 0, name |-> 0]

LinkDescriptor == {NodeGained(k) : k \in Keys} \cup {NodeLost(NKeys), Split}

\* BlockIdentifier of the DataChain (chain/block_identifier.rs); `key` holds
\* the digest, `name` the structured-data name
ImmutableData(h) == [tag |-> "ImmutableData", key |-> h, name |-> 0]
StructuredData(h, n) == [tag |-> "StructuredData", key |-> h, name |-> n]
\* StructuredData with the ledger bit set
StructuredDataLedger(h, n) == [tag |-> "StructuredDataLedger", key |-> h, name |-> n]
Link(d) == [tag |-> "Link", key |-> d, name |-> 0]

BlockIdentifier == {Link(1), Link(2), ImmutableData(1), StructuredData(1, 2)}

is_link(id) == id.tag = "Link"

is_block(id) == id.tag \in {"ImmutableData", "StructuredData", "StructuredDataLedger"}

\* --------------------------------------------------------- proofs and votes
\* A detached signature is modelled by what it was made from: the signing
\* key pair and the signed message.
sign_detached(msg, sk) == [by |-> sk, over |-> msg]

verify_detached(sig, msg, pk) == sig.by = pk /\ sig.over = msg

Proof_new(key, sig) == [key |-> key, sig |-> sig]

\* the index of an identifier's variant in its enum, which the encoders write
\* before the variant's fields
VariantIndex(tag) ==
    CASE tag \in {"NodeLost", "ImmutableData"} -> 0
      [] tag \in {"NodeGained", "StructuredData", "StructuredDataLedger"} -> 1
      [] tag \in {"Split", "Link"} -> 2
      [] OTHER -> 255

\* an encoding that leaves the variant index out
serialise_identifier_untagged(id) == [variant |-> 0, fields |-> <<id.key, id.name>>]

\* the bytes the encoder writes for an identifier: the variant index, then
\* the variant's fields
serialise_identifier(id) ==
    [variant |-> VariantIndex(id.tag),
     fields |-> IF id.tag = "StructuredDataLedger" THEN <<id.key, id.name, 1>>
                ELSE <<id.key, id.name>>]

\* the buffer a failed encoding leaves behind: nothing was written
EmptyBuf == [variant |-> 255, fields |-> <<>>]

\* NodeBlock::new / Vote::new: signs the serialised identifier
NodeBlock_new(pub_key, secret_key, id) ==
    [identifier |-> id, proof |-> Proof_new(pub_key, sign_detached(serialise_identifier(id), secret_key))]

\* a value that is none of the identifiers in use
Garbage == [tag |-> "Garbage", key |-> 0, name |-> 0]

\* a vote whose signature does not verify against its identifier
ForgedVote(pub_key, id) ==
    [identifier |-> id,
     proof |-> Proof_new(pub_key, sign_detached(serialise_identifier(Garbage), pub_key))]

\* NodeBlock::validate_detached: the vote's signature verifies over the
\* serialisation of the identifier given
validate_detached(vote, identifier) ==
    verify_detached(vote.proof.sig, serialise_identifier(identifier), vote.proof.key)

\* a verification that accepts every signature
validate_any(vote) == TRUE

\* NodeBlock::validate / Vote::validate
validate(vote) == validate_detached(vote, vote.identifier)

\* Vote::is_self_vote: the identifier is a membership change naming the voter
is_self_vote(vote) ==
    /\ vote.identifier.tag \in {"NodeGained", "NodeLost"}
    /\ vote.identifier.key = vote.proof.key

\* ------------------------------------------------------------------ blocks
\* Block::new, called on a vote whose signature was checked
Block_new(vote) ==
    [identifier |-> vote.identifier, proofs |-> <<vote.proof>>, valid |-> FALSE]

validate_proof(blk, proof) ==
    verify_detached(proof.sig, serialise_identifier(blk.identifier), proof.key)

\* a key test that never finds the key
HasKey_never(proofs, key) == FALSE

\* proofs.iter().any(|x| x.key() == key)
HasKey(proofs, key) == \E i \in 1..Len(proofs) : proofs[i].key = key

\* Block::add_proof: Err(Signature), Err(Validation) or the block extended
add_proof(blk, proof) ==
    IF ~validate_proof(blk, proof) THEN [ok |-> FALSE, blk |-> blk]
    ELSE IF ~HasKey(blk.proofs, proof.key)
         THEN [ok |-> TRUE, blk |-> [blk EXCEPT !.proofs = Append(@, proof)]]
         ELSE [ok |-> FALSE, blk |-> blk]

\* Option<T>
None == [some |-> FALSE, val |-> Garbage]
Some(x) == [some |-> TRUE, val |-> x]

NoVote ==
    [identifier |-> Garbage,
     proof |-> Proof_new(0, sign_detached(serialise_identifier(Garbage), 0))]

\* --------------------------------------------------------- sequence helpers
\* a search that never finds the identifier
position_none(c, id) == 0

\* Iterator::position, 1-based; 0 when no block has the identifier
position(c, id) ==
    IF \E i \in 1..Len(c) : c[i].identifier = id
    THEN CHOOSE i \in 1..Len(c) :
            /\ c[i].identifier = id
            /\ \A j \in 1..(i - 1) : c[j].identifier # id
    ELSE 0

\* a removal that drops the last block whatever the index
VecRemove_pop(c, pos) == SubSeq(c, 1, Len(c) - 1)

\* Vec::remove(pos)
VecRemove(c, pos) == [i \in 1..(Len(c) - 1) |-> IF i < pos THEN c[i] ELSE c[i + 1]]

\* -------------------------------------------------------------- quorum rule
\* number of the proving block's proofs whose key also signs `block`
p_len(block, proof) ==
    Len(SelectSeq(proof.proofs, LAMBDA y : HasKey(block.proofs, y.key)))

SectionChain_validate_block_with_proof(block, proof, gs) ==
    (p_len(block, proof) * 2 >= Len(proof.proofs)) \/ (p_len(block, proof) >= gs)

DataChain_validate_block_with_proof(block, proof, gs) ==
    (p_len(block, proof) * 2 > Len(proof.proofs)) \/ (p_len(block, proof) = gs)

\* ------------------------------------------------------------ SectionChain
\* index of the last block with the identifier, 0 when there is none
LastPosition(c, id) ==
    IF \E i \in 1..Len(c) : c[i].identifier = id
    THEN CHOOSE i \in 1..Len(c) :
            /\ c[i].identifier = id
            /\ \A j \in (i + 1)..Len(c) : c[j].identifier # id
    ELSE 0

\* a search that walks forward and returns the earliest valid block before
\* the target
SectionChain_valid_links_at_block_id_forward(c, block_id) ==
    LET p == LastPosition(c, block_id)
        cand == {i \in 1..(p - 1) : c[i].valid}
    IN IF cand = {} THEN None
       ELSE Some(c[CHOOSE i \in cand : \A j \in cand : i <= j])

\* SectionChain::valid_links_at_block_id: walking back from the target, the
\* first valid block strictly before it
SectionChain_valid_links_at_block_id(c, block_id) ==
    LET p == LastPosition(c, block_id)
        cand == {i \in 1..(p - 1) : c[i].valid}
    IN IF cand = {} THEN None
       ELSE Some(c[CHOOSE i \in cand : \A j \in cand : j <= i])

\* SectionChain::find / DataChain::find: the first block with the identifier
find(c, block_identifier) ==
    IF position(c, block_identifier) = 0 THEN None
    ELSE Some(c[position(c, block_identifier)])

\* a genesis branch that pushes the block as Block::new made it
add_vote_genesis_unmarked(c, vote) ==
    [chain |-> Append(c, Block_new(vote)), ret |-> Some(vote.identifier)]

\* add_vote on the empty chain: the block is pushed marked valid
add_vote_genesis(c, vote) ==
    LET blk == [Block_new(vote) EXCEPT !.valid = TRUE]
    IN [chain |-> Append(c, blk), ret |-> Some(blk.identifier)]

\* add_vote for an identifier found at pos: the block is moved to the end of
\* the chain, then the duplicate test, then the quorum test against `links`,
\* which the caller took before the move
add_vote_existing(c, gs, vote, links, pos) ==
    LET el == c[pos]
        moved == Append(VecRemove(c, pos), el)
        last == Len(moved)
    IN IF HasKey(el.proofs, vote.proof.key)
       THEN [chain |-> moved, ret |-> None]
       ELSE LET blk == add_proof(el, vote.proof).blk
                quorum == /\ links.some
                          /\ links.val.identifier # vote.identifier
                          /\ SectionChain_validate_block_with_proof(blk, links.val, gs)
            IN IF quorum
               THEN [chain |-> [moved EXCEPT ![last] = [blk EXCEPT !.valid = TRUE]],
                     ret |-> Some(blk.identifier)]
               ELSE [chain |-> [moved EXCEPT ![last] = [blk EXCEPT !.valid = FALSE]],
                     ret |-> None]

\* add_vote for an identifier the chain does not hold
add_vote_new(c, vote) ==
    LET blk == [Block_new(vote) EXCEPT !.valid = (Len(c) = 1)]
    IN [chain |-> Append(c, blk), ret |-> Some(blk.identifier)]

\* add_vote without the self-vote test
add_vote_no_self_test(c, gs, vote) ==
    IF ~validate(vote) THEN [chain |-> c, ret |-> None]
    ELSE LET links == SectionChain_valid_links_at_block_id(c, vote.identifier)
             pos == position(c, vote.identifier)
         IN IF c = <<>> THEN add_vote_genesis(c, vote)
            ELSE IF pos # 0 THEN add_vote_existing(c, gs, vote, links, pos)
            ELSE add_vote_new(c, vote)

\* SectionChain::add_vote: the chain after the call and the value returned
add_vote(c, gs, vote) ==
    IF ~validate(vote) THEN [chain |-> c, ret |-> None]
    ELSE LET links == SectionChain_valid_links_at_block_id(c, vote.identifier)
             pos == position(c, vote.identifier)
         IN IF c = <<>> THEN add_vote_genesis(c, vote)
            ELSE IF is_self_vote(vote) THEN [chain |-> c, ret |-> None]
            ELSE IF pos # 0 THEN add_vote_existing(c, gs, vote, links, pos)
            ELSE add_vote_new(c, vote)

\* --------------------------------------------------------------- DataChain
\* a take(n) that takes everything
Take_all(s, n) == s

\* Iterator::take(n)
Take(s, n) == IF Len(s) <= n THEN s ELSE SubSeq(s, 1, n)

Reverse(s) == [i \in 1..Len(s) |-> s[Len(s) + 1 - i]]

\* Iterator::skip_while(identifier != block_id)
SkipWhileNot(s, block_id) ==
    LET p == position(s, block_id)
    IN IF p = 0 THEN <<>> ELSE SubSeq(s, p, Len(s))

\* window of DataChain::valid_links_at_block_id
LinkWindow == 4

\* a search that returns only the valid links from the target to the end
DataChain_valid_links_after(c, block_id) ==
    Take(SelectSeq(SkipWhileNot(c, block_id),
                   LAMBDA x : is_link(x.identifier) /\ x.valid), LinkWindow)

\* DataChain::valid_links_at_block_id: valid links from the target back to the
\* start of the chain, then valid links from the target to the end
DataChain_valid_links_at_block_id(c, block_id) ==
    LET good(x) == is_link(x.identifier) /\ x.valid
        top_links == Take(SelectSeq(SkipWhileNot(c, block_id), good), LinkWindow)
        bottom_links == Take(SelectSeq(SkipWhileNot(Reverse(c), block_id), good), LinkWindow)
    IN bottom_links \o top_links

\* DataChain::add_node_block: the chain after the call and the value returned
add_node_block(c, gs, block) ==
    IF ~validate(block) THEN [chain |-> c, ret |-> None]
    ELSE
    LET links == DataChain_valid_links_at_block_id(c, block.identifier)
        len == Len(c)
        id == block.identifier
        pos == position(c, id)
    IN
    IF c = <<>> THEN [chain |-> Append(c, Block_new(block)), ret |-> None]
    ELSE IF pos # 0
    THEN IF HasKey(c[pos].proofs, block.proof.key)
         THEN [chain |-> c, ret |-> None]
         ELSE LET blk == add_proof(c[pos], block.proof).blk
                  quorum == \/ len = 1
                            \/ \E i \in 1..Len(links) :
                                 /\ links[i].identifier # blk.identifier
                                 /\ DataChain_validate_block_with_proof(blk, links[i], gs)
              IN IF quorum
                 THEN [chain |-> [c EXCEPT ![pos] = [blk EXCEPT !.valid = TRUE]],
                       ret |-> Some(id)]
                 ELSE [chain |-> [c EXCEPT ![pos] = [blk EXCEPT !.valid = FALSE]],
                       ret |-> None]
    ELSE [chain |-> Append(c, Block_new(block)), ret |-> None]

\* ------------------------------------------------------------------- state
VARIABLES
    kind,        \* "SectionChain" or "DataChain": the type of the chain object
    chain,       \* the chain field: Vec<Block>
    group_size,  \* the group_size field
    op,          \* the operation that ran last
    arg,         \* its argument
    ret,         \* the value it returned
    pre,         \* the chain before it ran
    calls,       \* how many operations ran
    file,        \* the file <dir>/data_chain: exists, bytes, lock holder
    proc,        \* per process or thread: where it is in a call, and its chain
    secured      \* SecuredData: the keys of the chunk store, the chain's mutex

vars == <<kind, chain, group_size, op, arg, ret, pre, calls, file, proc, secured>>

Identifiers == IF kind = "SectionChain" THEN LinkDescriptor ELSE BlockIdentifier

\* the votes a peer can deliver: signed by any key over any identifier, and
\* votes over any identifier whose signature does not verify
Votes ==
    {NodeBlock_new(k, k, id) : k \in Keys, id \in Identifiers}
        \cup {ForgedVote(1, id) : id \in Identifiers}

\* no SecuredData around the chain
NoStore == [cs |-> {}, mutex |-> [holder |-> 0, poisoned |-> FALSE]]

\* no file on disk
AbsentFile == [exists |-> FALSE, bytes |-> <<>>, lock |-> 0]

\* no process holds a chain bound to a file
NoProc == <<>>

\* SectionChain::default / DataChain::default / create_in_path
Init ==
    /\ kind \in {"SectionChain", "DataChain"}
    /\ chain = <<>>
    /\ group_size \in GroupSizes
    /\ op = "new"
    /\ arg = NoVote
    /\ ret = None
    /\ pre = <<>>
    /\ calls = 0
    /\ file = AbsentFile
    /\ proc = NoProc
    /\ secured = NoStore

AddVote ==
    /\ kind = "SectionChain"
    /\ calls < MaxCalls
    /\ \E vote \in Votes :
         LET r == add_vote(chain, group_size, vote)
         IN /\ Len(r.chain) <= MaxChain
            /\ chain' = r.chain
            /\ ret' = r.ret
            /\ arg' = vote
    /\ op' = "add_vote"
    /\ pre' = chain
    /\ calls' = calls + 1
    /\ UNCHANGED <<kind, group_size, file, proc, secured>>

AddNodeBlock ==
    /\ kind = "DataChain"
    /\ calls < MaxCalls
    /\ \E block \in Votes :
         LET r == add_node_block(chain, group_size, block)
         IN /\ Len(r.chain) <= MaxChain
            /\ chain' = r.chain
            /\ ret' = r.ret
            /\ arg' = block
    /\ op' = "add_node_block"
    /\ pre' = chain
    /\ calls' = calls + 1
    /\ UNCHANGED <<kind, group_size, file, proc, secured>>

Next == AddVote \/ AddNodeBlock

Spec == Init /\ [][Next]_vars

\* ---------------------------------------------- the quorum rule on its own
\* the keys of a set as a sequence in ascending order
RECURSIVE SortedSeq(_)
SortedSeq(S) ==
    IF S = {} THEN <<>>
    ELSE LET k == CHOOSE x \in S : \A y \in S : x <= y
         IN <<k>> \o SortedSeq(S \ {k})

\* a block over identifier id correctly signed by the keys of S, as
\* Block::new and add_proof build it
SignedBlock(id, S) ==
    [identifier |-> id,
     proofs |-> [i \in 1..Cardinality(S) |->
                    NodeBlock_new(SortedSeq(S)[i], SortedSeq(S)[i], id).proof],
     valid |-> FALSE]

\* validate_block_with_proof applied to a block and a proving block signed by
\* any two sets of keys
ValidateBlockWithProof ==
    /\ calls = 0
    /\ \E SB \in SUBSET Keys, SL \in SUBSET Keys :
         LET block == SignedBlock(IF kind = "SectionChain" THEN Split ELSE ImmutableData(1), SB)
             proof == SignedBlock(IF kind = "SectionChain" THEN NodeGained(1) ELSE Link(1), SL)
         IN /\ arg' = [block |-> block, proof |-> proof]
            /\ ret' = IF kind = "SectionChain"
                      THEN SectionChain_validate_block_with_proof(block, proof, group_size)
                      ELSE DataChain_validate_block_with_proof(block, proof, group_size)
    /\ op' = "validate_block_with_proof"
    /\ calls' = 1
    /\ UNCHANGED <<kind, chain, group_size, pre, file, proc, secured>>

NextQuorum == ValidateBlockWithProof

SpecQuorum == Init /\ [][NextQuorum]_vars

\* ------------------------------------------------ pruning of bad signatures
\* longest proof list of a block whose signatures are pruned
MaxProofs == 3

\* identifier.serialize(&mut Serializer::new(&mut buf)): the result and the
\* buffer it leaves; `fails` is the encoder's outcome
serialize(id, fails) ==
    IF fails THEN [is_err |-> TRUE, buf |-> EmptyBuf]
    ELSE [is_err |-> FALSE, buf |-> serialise_identifier(id)]

\* Block::remove_invalid_signatures: the encoder's result is dropped and the
\* proofs are tested against whatever the buffer holds
Block_remove_invalid_signatures(blk, fails) ==
    LET buf == serialize(blk.identifier, fails).buf
    IN  [blk EXCEPT !.proofs =
                SelectSeq(@, LAMBDA proof : verify_detached(proof.sig, buf, proof.key))]

\* Link::remove_invalid_signatures: returns at once when the encoder fails
Link_remove_invalid_signatures(link, fails) ==
    LET r == serialize(link.identifier, fails)
    IN  IF r.is_err THEN link
        ELSE [link EXCEPT !.proofs =
                  SelectSeq(@, LAMBDA proof :
                                   verify_detached(proof.sig, r.buf, proof.key))]

\* the proofs a block can be handed for one identifier: correctly signed,
\* signed over other bytes, signed over no bytes
ProofsFor(id) ==
    {Proof_new(k, sign_detached(msg, k)) :
        k \in Keys,
        msg \in {serialise_identifier(id), serialise_identifier(Garbage), EmptyBuf}}

SeqsUpTo(S, n) == UNION {[1..m -> S] : m \in 0..n}

\* a block of either identifier type or a link, which is identified by a
\* LinkDescriptor, with any proof list, and the struct and encoder outcome
\* of the call
InitSignatures ==
    /\ kind \in {"SectionChain", "DataChain"}
    /\ \E id \in (IF kind = "SectionChain" THEN {NodeGained(1), Split}
                   ELSE {Link(1), ImmutableData(1)}) :
         \E ps \in SeqsUpTo(ProofsFor(id), MaxProofs) :
            chain = <<[identifier |-> id, proofs |-> ps, valid |-> FALSE]>>
    /\ arg \in [struct : {"Block", "Link"}, fails : BOOLEAN]
    /\ arg.struct = "Link" => kind = "SectionChain"
    /\ group_size = 0
    /\ op = "new"
    /\ ret = None
    /\ pre = <<>>
    /\ calls = 0
    /\ file = AbsentFile
    /\ proc = NoProc
    /\ secured = NoStore

\* one call of remove_invalid_signatures on the block
RemoveInvalidSignatures ==
    /\ calls = 0
    /\ chain' = <<IF arg.struct = "Block"
                  THEN Block_remove_invalid_signatures(chain[1], arg.fails)
                  ELSE Link_remove_invalid_signatures(chain[1], arg.fails)>>
    /\ op' = "remove_invalid_signatures"
    /\ pre' = chain
    /\ calls' = 1
    /\ UNCHANGED <<kind, group_size, arg, ret, file, proc, secured>>

NextSignatures == RemoveInvalidSignatures

SpecSignatures == InitSignatures /\ [][NextSignatures]_vars

\* --------------------------------------------------------- link descriptors
\* longest group a descriptor is computed of
MaxGroup == 3

\* Itertools::sorted: an element put in its place in a sorted list
RECURSIVE SortedInsert(_, _)
SortedInsert(x, s) ==
    IF s = <<>> THEN <<x>>
    ELSE IF x <= Head(s) THEN <<x>> \o s
         ELSE <<Head(s)>> \o SortedInsert(x, Tail(s))

\* Itertools::sorted: the elements in ascending order, repetitions kept
RECURSIVE sorted(_)
sorted(s) == IF s = <<>> THEN <<>> ELSE SortedInsert(Head(s), sorted(Tail(s)))

\* Keccak::new_sha3_256, update per key, finalize: the digest is modelled by
\* the bytes it was fed, one digest per input
sha3_256(updates) == [digest_of |-> updates]

\* create_link_descriptor of the chain module: None for an empty group, else
\* the digest of the keys in sorted order
create_link_descriptor(group) ==
    IF group = <<>> THEN None ELSE Some(sha3_256(sorted(group)))

\* bitwise exclusive or of two keys
RECURSIVE Xor(_, _)
Xor(a, b) ==
    IF a = 0 THEN b
    ELSE IF b = 0 THEN a
         ELSE (((a % 2) + (b % 2)) % 2) + (2 * Xor(a \div 2, b \div 2))

\* create_link_descriptor of the crate root: the keys xored into a zero base
RECURSIVE create_link_descriptor_xor(_)
create_link_descriptor_xor(group) ==
    IF group = <<>> THEN 0
    ELSE Xor(create_link_descriptor_xor(SubSeq(group, 1, Len(group) - 1)),
             group[Len(group)])

\* two groups of public keys, in any order and with repetitions
InitDescriptor ==
    /\ kind = "DataChain"
    /\ arg \in [group : SeqsUpTo(Keys, MaxGroup), other : SeqsUpTo(Keys, MaxGroup)]
    /\ chain = <<>>
    /\ group_size = 0
    /\ op = "new"
    /\ ret = None
    /\ pre = <<>>
    /\ calls = 0
    /\ file = AbsentFile
    /\ proc = NoProc
    /\ secured = NoStore

\* chain::create_link_descriptor of both groups
CreateLinkDescriptor ==
    /\ calls = 0
    /\ ret' = [first |-> create_link_descriptor(arg.group),
               second |-> create_link_descriptor(arg.other)]
    /\ op' = "create_link_descriptor"
    /\ calls' = 1
    /\ UNCHANGED <<kind, chain, group_size, arg, pre, file, proc, secured>>

\* the crate root's create_link_descriptor of both groups
CreateLinkDescriptorXor ==
    /\ calls = 0
    /\ ret' = [first |-> create_link_descriptor_xor(arg.group),
               second |-> create_link_descriptor_xor(arg.other)]
    /\ op' = "create_link_descriptor_xor"
    /\ calls' = 1
    /\ UNCHANGED <<kind, chain, group_size, arg, pre, file, proc, secured>>

NextDescriptor == CreateLinkDescriptor \/ CreateLinkDescriptorXor

SpecDescriptor == InitDescriptor /\ [][NextDescriptor]_vars

\* ----------------------------------------------------- the vote round trip
\* the signatures a proof can carry
Signatures ==
    {sign_detached(serialise_identifier(id), k) :
        id \in Identifiers \cup {Garbage}, k \in Keys}

\* the inputs of NodeBlock::new, and an identifier and a signature to test
\* the vote against
InitVote ==
    /\ kind \in {"SectionChain", "DataChain"}
    /\ arg \in [pub_key : Keys, secret_key : Keys, id : Identifiers,
                identifier : Identifiers, sig : Signatures]
    /\ ret = [vote |-> NoVote, result |-> FALSE]
    /\ chain = <<>>
    /\ group_size = 0
    /\ op = "none"
    /\ pre = <<>>
    /\ calls = 0
    /\ file = AbsentFile
    /\ proc = NoProc
    /\ secured = NoStore

\* NodeBlock::new(pub_key, secret_key, id)
NodeBlockNew ==
    /\ calls = 0
    /\ ret' = [vote |-> NodeBlock_new(arg.pub_key, arg.secret_key, arg.id),
               result |-> TRUE]
    /\ op' = "new"
    /\ calls' = 1
    /\ UNCHANGED <<kind, chain, group_size, arg, pre, file, proc, secured>>

\* vote.validate()
Validate ==
    /\ calls = 1
    /\ ret' = [ret EXCEPT !.result = validate(ret.vote)]
    /\ op' = "validate"
    /\ calls' = 2
    /\ UNCHANGED <<kind, chain, group_size, arg, pre, file, proc, secured>>

\* vote.validate_detached(identifier)
ValidateDetached ==
    /\ calls = 1
    /\ ret' = [ret EXCEPT !.result = validate_detached(ret.vote, arg.identifier)]
    /\ op' = "validate_detached"
    /\ calls' = 2
    /\ UNCHANGED <<kind, chain, group_size, arg, pre, file, proc, secured>>

\* validate() of the vote with its signature replaced
ValidateSignature ==
    /\ calls = 1
    /\ ret' = [ret EXCEPT !.result = validate([ret.vote EXCEPT !.proof.sig = arg.sig])]
    /\ op' = "validate_signature"
    /\ calls' = 2
    /\ UNCHANGED <<kind, chain, group_size, arg, pre, file, proc, secured>>

NextVote == NodeBlockNew \/ Validate \/ ValidateDetached \/ ValidateSignature

SpecVote == InitVote /\ [][NextVote]_vars

\* ------------------------------------------------- whole-chain operations
\* Block::remove_invalid_signatures: keeps the proofs that verify against the
\* block's identifier
remove_invalid_signatures(blk) ==
    [blk EXCEPT !.proofs = SelectSeq(@, LAMBDA proof : validate_proof(blk, proof))]

\* the loop of DataChain::mark_blocks_valid from block i on, first_link being
\* the proving link when block i is visited
RECURSIVE DataChain_mark_loop(_, _, _, _)
DataChain_mark_loop(c, i, first_link, gs) ==
    IF i > Len(c) THEN <<>>
    ELSE LET block == remove_invalid_signatures(c[i])
             ok == DataChain_validate_block_with_proof(block, first_link, gs)
             marked == [block EXCEPT !.valid = ok]
         IN <<marked>> \o
            DataChain_mark_loop(c, i + 1,
                IF ok /\ is_link(block.identifier) THEN marked ELSE first_link, gs)

\* DataChain::mark_blocks_valid: the proving link starts as a clone of the
\* first link, taken before any signature is dropped; no link clears the chain
DataChain_mark_blocks_valid(c, gs) ==
    LET links == SelectSeq(c, LAMBDA x : is_link(x.identifier))
    IN IF links # <<>> THEN DataChain_mark_loop(c, 1, links[1], gs) ELSE <<>>

\* SectionChain::mark_blocks_valid: every block is tested against the first
\* block (the inner `let first_link` never reaches the outer binding), and
\* the chain is cleared after the loop
SectionChain_mark_blocks_valid(c, gs) ==
    IF c # <<>>
    THEN LET marked == [i \in 1..Len(c) |->
                 LET block == remove_invalid_signatures(c[i])
                 IN [block EXCEPT !.valid =
                        SectionChain_validate_block_with_proof(block, c[1], gs)]]
         IN SubSeq(marked, 1, 0)
    ELSE c

mark_blocks_valid(k, c, gs) ==
    IF k = "SectionChain" THEN SectionChain_mark_blocks_valid(c, gs)
    ELSE DataChain_mark_blocks_valid(c, gs)

\* prune: mark_blocks_valid, then retain(|x| x.valid)
prune(k, c, gs) == SelectSeq(mark_blocks_valid(k, c, gs), LAMBDA x : x.valid)

\* last_valid_link: DataChain looks for the last valid link, SectionChain for
\* the last valid block
last_valid_link(k, c) ==
    LET cand == {i \in 1..Len(c) :
                    c[i].valid /\ (k = "SectionChain" \/ is_link(c[i].identifier))}
    IN IF cand = {} THEN None
       ELSE Some(c[CHOOSE i \in cand : \A j \in cand : j <= i])

\* validate_ownership: marks the chain, then counts the proofs of the last
\* valid link whose key is in my_group
validate_ownership(k, c, gs, my_group) ==
    LET marked == mark_blocks_valid(k, c, gs)
        last_link == last_valid_link(k, marked)
    IN [chain |-> marked,
        ret |-> IF last_link.some
                THEN Len(SelectSeq(last_link.val.proofs,
                                   LAMBDA p : p.key \in my_group)) * 2
                        > Len(last_link.val.proofs)
                ELSE FALSE]

\* a removal that does not spare links
remove_any(c, data_id) == SelectSeq(c, LAMBDA x : x.identifier # data_id)

\* DataChain::remove: retain(|x| x.identifier() != data_id || is_link())
remove(c, data_id) ==
    SelectSeq(c, LAMBDA x : x.identifier # data_id \/ is_link(x.identifier))

\* DataChain::valid_len: blocks_len() + links_len(), the valid data blocks
\* and the valid links
valid_len(c) ==
    Len(SelectSeq(c, LAMBDA x : is_block(x.identifier) /\ x.valid))
        + Len(SelectSeq(c, LAMBDA x : is_link(x.identifier) /\ x.valid))

\* an insertion that overwrites the block at the index
VecInsert_overwrite(c, index, x) ==
    [i \in 1..Len(c) |-> IF i = index + 1 THEN x ELSE c[i]]

\* Vec::insert(index, x), index counted from 0
VecInsert(c, index, x) ==
    [i \in 1..(Len(c) + 1) |->
        IF i <= index THEN c[i] ELSE IF i = index + 1 THEN x ELSE c[i - 1]]

\* the loop of DataChain::merge_chain over the blocks `news` from the j-th
\* on; skip(start_pos) precedes enumerate(), so pos counts from start_pos
RECURSIVE DataChain_merge_loop(_, _, _, _, _)
DataChain_merge_loop(self, news, j, start_pos, gs) ==
    IF j > Len(news) THEN self
    ELSE LET found == {pos \in 0..(Len(self) - start_pos - 1) :
                 DataChain_validate_block_with_proof(news[j], self[start_pos + pos + 1], gs)}
         IN IF found = {} THEN DataChain_merge_loop(self, news, j + 1, start_pos, gs)
            ELSE LET pos == CHOOSE x \in found : \A y \in found : x <= y
                 IN DataChain_merge_loop(VecInsert(self, pos, news[j]), news,
                                         j + 1, pos + 1, gs)

\* DataChain::merge_chain: marks and prunes the other chain, then inserts its
\* data blocks
DataChain_merge_chain(self, other, gs) ==
    DataChain_merge_loop(self,
        SelectSeq(prune("DataChain", DataChain_mark_blocks_valid(other, gs), gs),
                  LAMBDA x : is_block(x.identifier)),
        1, 0, gs)

\* the loop of SectionChain::merge_chain; enumerate() precedes
\* skip(start_pos), so pos is an index of self
RECURSIVE SectionChain_merge_loop(_, _, _, _, _)
SectionChain_merge_loop(self, news, j, start_pos, gs) ==
    IF j > Len(news) THEN self
    ELSE LET found == {pos \in start_pos..(Len(self) - 1) :
                 SectionChain_validate_block_with_proof(news[j], self[pos + 1], gs)}
         IN IF found = {} THEN SectionChain_merge_loop(self, news, j + 1, start_pos, gs)
            ELSE LET pos == CHOOSE x \in found : \A y \in found : x <= y
                 IN SectionChain_merge_loop(VecInsert(self, pos, news[j]), news,
                                            j + 1, pos + 1, gs)

\* SectionChain::merge_chain
SectionChain_merge_chain(self, other, gs) ==
    SectionChain_merge_loop(self,
        prune("SectionChain", SectionChain_mark_blocks_valid(other, gs), gs),
        1, 0, gs)

merge_chain(k, self, other, gs) ==
    IF k = "SectionChain" THEN SectionChain_merge_chain(self, other, gs)
    ELSE DataChain_merge_chain(self, other, gs)

\* ------------------------------------------- chains built from given blocks
\* longest chain handed to from_blocks
MaxBlocks == 2

\* the identifiers the i-th block of such a chain may carry
BlockIds(i) ==
    IF kind = "SectionChain" THEN {NodeGained(i), NodeLost(i)}
    ELSE {Link(i), ImmutableData(i)}

\* a block that also holds a proof by key 1 whose signature does not verify,
\* as proofs_mut() allows
ForgedBlock(id, S) ==
    [SignedBlock(id, S) EXCEPT !.proofs = <<ForgedVote(1, id).proof>> \o @]

SignerSets == (SUBSET Keys) \ {{}}

RECURSIVE ChainsOfLen(_)
ChainsOfLen(n) ==
    IF n = 0 THEN {<<>>}
    ELSE IF n = 1
         THEN {<<SignedBlock(id, S)>> : id \in BlockIds(1), S \in SignerSets}
                 \cup {<<ForgedBlock(id, S)>> : id \in BlockIds(1), S \in SUBSET (Keys \ {1})}
         ELSE {Append(c, SignedBlock(id, S)) :
                  c \in ChainsOfLen(n - 1), id \in BlockIds(n), S \in SignerSets}

\* a chain of one block marked valid, as a genesis block is
GenesisChains ==
    {<<[SignedBlock(id, S) EXCEPT !.valid = TRUE]>> : id \in BlockIds(1), S \in SignerSets}

\* a chain holding two blocks with the same identifier, as insert() allows
RepeatedChains ==
    {<<SignedBlock(id, {1}), SignedBlock(id, {NKeys})>> : id \in BlockIds(1)}

\* the second chain of a merge: a link signed by S followed by n data blocks
\* signed by S or by S less one key, or by one block with an identifier the
\* first chain may hold
OtherChains ==
    {<<SignedBlock(IF kind = "SectionChain" THEN Split ELSE Link(0), ST[1])>> \o
        [j \in 1..n |->
            SignedBlock(IF kind = "SectionChain" THEN NodeLost(MaxBlocks + j)
                        ELSE ImmutableData(MaxBlocks + j), ST[2])] :
        n \in 0..MaxBlocks,
        ST \in {x \in SignerSets \X SignerSets :
                    x[2] = x[1] \/ \E k \in x[1] : x[2] = x[1] \ {k}}}
      \cup
    {<<SignedBlock(IF kind = "SectionChain" THEN Split ELSE Link(0), S),
       SignedBlock(IF kind = "SectionChain" THEN NodeLost(MaxBlocks)
                   ELSE ImmutableData(MaxBlocks), S)>> : S \in SignerSets}

\* MyGroups: the groups validate_ownership is asked about
MyGroups == {1..j : j \in 0..NKeys}

\* from_blocks(blocks, group_size)
InitOps ==
    /\ kind \in {"SectionChain", "DataChain"}
    /\ chain \in UNION {ChainsOfLen(n) : n \in 0..MaxBlocks}
                    \cup GenesisChains \cup RepeatedChains
    /\ group_size \in GroupSizes
    /\ op = "from_blocks"
    /\ arg = NoVote
    /\ ret = None
    /\ pre = <<>>
    /\ calls = 0
    /\ file = AbsentFile
    /\ proc = NoProc
    /\ secured = NoStore

MarkBlocksValid ==
    /\ calls = 0
    /\ chain' = mark_blocks_valid(kind, chain, group_size)
    /\ op' = "mark_blocks_valid"
    /\ pre' = chain
    /\ calls' = 1
    /\ UNCHANGED <<kind, group_size, arg, ret, file, proc, secured>>

Prune ==
    /\ calls = 0
    /\ chain' = prune(kind, chain, group_size)
    /\ op' = "prune"
    /\ pre' = chain
    /\ calls' = 1
    /\ UNCHANGED <<kind, group_size, arg, ret, file, proc, secured>>

ValidateOwnership ==
    /\ calls = 0
    /\ \E my_group \in MyGroups :
         LET r == validate_ownership(kind, chain, group_size, my_group)
         IN /\ chain' = r.chain
            /\ ret' = r.ret
            /\ arg' = my_group
    /\ op' = "validate_ownership"
    /\ pre' = chain
    /\ calls' = 1
    /\ UNCHANGED <<kind, group_size, file, proc, secured>>

MergeChain ==
    /\ calls = 0
    /\ \E other \in OtherChains :
         /\ chain' = merge_chain(kind, chain, other, group_size)
         /\ arg' = other
    /\ op' = "merge_chain"
    /\ pre' = chain
    /\ calls' = 1
    /\ UNCHANGED <<kind, group_size, ret, file, proc, secured>>

\* DataChain::remove of an identifier a block of such a chain may carry
Remove ==
    /\ calls = 0
    /\ kind = "DataChain"
    /\ \E data_id \in UNION {BlockIds(i) : i \in 1..MaxBlocks} :
         /\ chain' = remove(chain, data_id)
         /\ arg' = data_id
    /\ op' = "remove"
    /\ pre' = chain
    /\ calls' = 1
    /\ UNCHANGED <<kind, group_size, ret, file, proc, secured>>

\* DataChain::valid_links_at_block_id of an identifier of the chain and of
\* one it does not hold
ValidLinksAtBlockId ==
    /\ calls = 0
    /\ kind = "DataChain"
    /\ \E block_id \in {chain[i].identifier : i \in 1..Len(chain)} \cup {ImmutableData(0)} :
         /\ ret' = DataChain_valid_links_at_block_id(chain, block_id)
         /\ arg' = block_id
    /\ op' = "valid_links_at_block_id"
    /\ pre' = chain
    /\ calls' = 1
    /\ UNCHANGED <<kind, chain, group_size, file, proc, secured>>

NextOps == MarkBlocksValid \/ Prune \/ ValidateOwnership \/ MergeChain \/ Remove

\* ------------------------------------------------ the window of valid links
\* longest chain the window is taken from
MaxLinks == 6

\* chains of links, valid or not, and valid data blocks, each signed by key 1
RECURSIVE LinkChainsOfLen(_)
LinkChainsOfLen(n) ==
    IF n = 0 THEN {<<>>}
    ELSE {Append(c, [SignedBlock(id, {1}) EXCEPT !.valid = v]) :
             c \in LinkChainsOfLen(n - 1),
             id \in {Link(n), ImmutableData(n)},
             v \in BOOLEAN} \ {Append(c, SignedBlock(ImmutableData(n), {1})) :
                                 c \in LinkChainsOfLen(n - 1)}

InitWindow ==
    /\ kind = "DataChain"
    /\ chain \in UNION {LinkChainsOfLen(n) : n \in 0..MaxLinks}
    /\ group_size \in GroupSizes
    /\ op = "from_blocks"
    /\ arg = NoVote
    /\ ret = None
    /\ pre = <<>>
    /\ calls = 0
    /\ file = AbsentFile
    /\ proc = NoProc
    /\ secured = NoStore

NextWindow == ValidLinksAtBlockId

SpecWindow == InitWindow /\ [][NextWindow]_vars

SpecOps == InitOps /\ [][NextOps]_vars

\* ------------------------------------------------------------ persistence
\* number of processes that construct a chain on the same directory
NProcs == 2

Procs == 1..NProcs

\* no detached signature
NoSig == sign_detached(serialise_identifier(Garbage), 0)

\* The serialised form is a sequence of items: a length, an identifier, a
\* proof or a valid flag.
LenItem(n) == [t |-> "len", n |-> n, id |-> Garbage, sig |-> NoSig]
IdItem(id) == [t |-> "id", n |-> 0, id |-> id, sig |-> NoSig]
ProofItem(proof) == [t |-> "proof", n |-> proof.key, id |-> Garbage, sig |-> proof.sig]
ValidItem(v) == [t |-> "valid", n |-> IF v THEN 1 ELSE 0, id |-> Garbage, sig |-> NoSig]

\* the derived encoding of a Block: identifier, proofs (length first), valid
serialise_block(b) ==
    <<IdItem(b.identifier), LenItem(Len(b.proofs))>>
        \o [i \in 1..Len(b.proofs) |-> ProofItem(b.proofs[i])]
        \o <<ValidItem(b.valid)>>

RECURSIVE serialise_blocks(_)
serialise_blocks(c) ==
    IF c = <<>> THEN <<>> ELSE serialise_block(Head(c)) \o serialise_blocks(Tail(c))

\* serialisation::serialise(&self.chain) / self.chain.serialize(..): the
\* number of blocks, then the blocks
serialise(c) == <<LenItem(Len(c))>> \o serialise_blocks(c)

\* decoding of one Block that starts at item i; `next` is the item after it
deserialise_block(bytes, i) ==
    IF /\ i + 1 <= Len(bytes)
       /\ bytes[i].t = "id"
       /\ bytes[i + 1].t = "len"
       /\ i + 2 + bytes[i + 1].n <= Len(bytes)
       /\ \A j \in (i + 2)..(i + 1 + bytes[i + 1].n) : bytes[j].t = "proof"
       /\ bytes[i + 2 + bytes[i + 1].n].t = "valid"
    THEN [ok |-> TRUE,
          blk |-> [identifier |-> bytes[i].id,
                   proofs |-> [j \in 1..bytes[i + 1].n |->
                                  Proof_new(bytes[i + 1 + j].n, bytes[i + 1 + j].sig)],
                   valid |-> bytes[i + 2 + bytes[i + 1].n].n = 1],
          next |-> i + 3 + bytes[i + 1].n]
    ELSE [ok |-> FALSE, blk |-> Garbage, next |-> i]

\* decoding of n Blocks from item i on
RECURSIVE deserialise_blocks(_, _, _)
deserialise_blocks(bytes, i, n) ==
    IF n = 0 THEN [ok |-> TRUE, val |-> <<>>, next |-> i]
    ELSE LET b == deserialise_block(bytes, i)
         IN IF ~b.ok THEN [ok |-> FALSE, val |-> <<>>, next |-> i]
            ELSE LET rest == deserialise_blocks(bytes, b.next, n - 1)
                 IN [ok |-> rest.ok,
                     val |-> IF rest.ok THEN <<b.blk>> \o rest.val ELSE <<>>,
                     next |-> rest.next]

\* a decoder that rejects input with items after the decoded value
deserialise_exact(bytes) ==
    IF bytes = <<>> \/ bytes[1].t # "len" THEN [ok |-> FALSE, val |-> <<>>]
    ELSE LET r == deserialise_blocks(bytes, 2, bytes[1].n)
         IN IF r.ok /\ r.next = Len(bytes) + 1
            THEN [ok |-> TRUE, val |-> r.val]
            ELSE [ok |-> FALSE, val |-> <<>>]

\* serialisation::deserialise::<Blocks>(&buf) / <Vec<Block>>::deserialize(..):
\* decodes one value from the start of the buffer; what follows it is not
\* read
deserialise(bytes) ==
    IF bytes = <<>> \/ bytes[1].t # "len" THEN [ok |-> FALSE, val |-> <<>>]
    ELSE LET r == deserialise_blocks(bytes, 2, bytes[1].n)
         IN [ok |-> r.ok, val |-> r.val]

\* a write_all that replaces the content of the file
write_all_truncating(old, buf) == buf

\* File::write_all on a file opened without truncate(true) or append(true):
\* the buffer replaces the content from offset 0, the rest stays
write_all(old, buf) ==
    IF Len(buf) >= Len(old) THEN buf
    ELSE buf \o SubSeq(old, Len(buf) + 1, Len(old))

\* a write that does not test the path
write_unbound(c, bound, f) ==
    [file |-> [f EXCEPT !.exists = TRUE, !.bytes = write_all(f.bytes, serialise(c))],
     ret |-> "Ok"]

\* write(): Err(NoFile) without a path, an I/O error when the file cannot be
\* opened, else the serialised chain is written
write(c, bound, f) ==
    IF ~bound THEN [file |-> f, ret |-> "NoFile"]
    ELSE IF ~f.exists THEN [file |-> f, ret |-> "Io"]
    ELSE [file |-> [f EXCEPT !.bytes = write_all(f.bytes, serialise(c))], ret |-> "Ok"]

\* the tail of from_path once the file is open and locked: read_to_end and
\* deserialise; DataChain returns the error, SectionChain unwraps it
from_path_read(k, f) ==
    LET d == deserialise(f.bytes)
    IN IF d.ok THEN [ret |-> "Ok", chain |-> d.val]
       ELSE [ret |-> IF k = "SectionChain" THEN "panic" ELSE "Deserialise",
             chain |-> <<>>]

\* a process that holds no chain and is in no constructor
Idle == [pc |-> "idle", call |-> "none", chain |-> <<>>, bound |-> FALSE]

\* the blocks the processes insert: a valid link signed by key 1 and a block
\* signed by keys 2 and 3
FileBlocks ==
    IF kind = "SectionChain"
    THEN {[SignedBlock(Split, {1}) EXCEPT !.valid = TRUE], SignedBlock(NodeGained(1), {2, NKeys})}
    ELSE {[SignedBlock(Link(1), {1}) EXCEPT !.valid = TRUE], SignedBlock(ImmutableData(1), {2, NKeys})}

\* the directory is empty; one process constructs chains
InitFile ==
    /\ kind \in {"SectionChain", "DataChain"}
    /\ chain = <<>>
    /\ group_size \in GroupSizes
    /\ op = "new"
    /\ arg = [p |-> 0, file |-> AbsentFile]
    /\ ret = "none"
    /\ pre = <<>>
    /\ calls = 0
    /\ file = AbsentFile
    /\ proc = [p \in {1} |-> Idle]
    /\ secured = NoStore

\* what every step of process p records: the operation, the process and the
\* file before the step, the chain of p before and after
Step(p, o, r) ==
    /\ op' = o
    /\ arg' = [p |-> p, file |-> file]
    /\ ret' = r
    /\ pre' = proc[p].chain
    /\ chain' = proc'[p].chain
    /\ calls' = calls
    /\ UNCHANGED <<kind, group_size, secured>>

\* create_in_path up to open(): create_new(true) fails on an existing file
CreateInPathOpen(p) ==
    /\ proc[p].pc = "idle"
    /\ IF file.exists
       THEN /\ proc' = proc
            /\ file' = file
            /\ Step(p, "create_in_path", "Io")
       ELSE /\ proc' = [proc EXCEPT ![p].pc = "opened", ![p].call = "create_in_path"]
            /\ file' = [file EXCEPT !.exists = TRUE]
            /\ Step(p, "open", "Ok")

\* from_path up to open(): create(false) fails on a missing file
FromPathOpen(p) ==
    /\ proc[p].pc = "idle"
    /\ IF file.exists
       THEN /\ proc' = [proc EXCEPT ![p].pc = "opened", ![p].call = "from_path"]
            /\ Step(p, "open", "Ok")
       ELSE /\ proc' = proc
            /\ Step(p, "from_path", "Io")
    /\ file' = file

\* file.lock_exclusive(): blocks while another open file holds the lock
LockExclusive(p) ==
    /\ proc[p].pc = "opened"
    /\ file.lock = 0
    /\ file' = [file EXCEPT !.lock = p]
    /\ proc' = [proc EXCEPT ![p].pc = "locked"]
    /\ Step(p, "lock_exclusive", "Ok")

\* the return of create_in_path: the chain is built and `file` goes out of
\* scope, which closes it and releases its lock
CreateInPathReturn(p) ==
    /\ proc[p].pc = "locked"
    /\ proc[p].call = "create_in_path"
    /\ proc' = [proc EXCEPT ![p].pc = "live", ![p].chain = <<>>, ![p].bound = TRUE]
    /\ file' = [file EXCEPT !.lock = 0]
    /\ Step(p, "create_in_path", "Ok")

\* the rest of from_path; `file` goes out of scope on every way out
FromPathReturn(p) ==
    /\ proc[p].pc = "locked"
    /\ proc[p].call = "from_path"
    /\ LET r == from_path_read(kind, file)
       IN /\ proc' = [proc EXCEPT ![p] =
                        IF r.ret = "Ok"
                        THEN [pc |-> "live", call |-> "from_path", chain |-> r.chain,
                              bound |-> TRUE]
                        ELSE Idle]
          /\ Step(p, "from_path", r.ret)
    /\ file' = [file EXCEPT !.lock = 0]

\* from_blocks: a chain without a path
FromBlocks(p) ==
    /\ proc[p].pc = "idle"
    /\ \E c \in {<<>>} \cup {<<b>> : b \in FileBlocks} :
         proc' = [proc EXCEPT ![p].pc = "live", ![p].call = "from_blocks", ![p].chain = c]
    /\ file' = file
    /\ Step(p, "from_blocks", "Ok")

\* insert(index, block) on a live chain
Insert(p) ==
    /\ proc[p].pc = "live"
    /\ Len(proc[p].chain) < MaxBlocks
    /\ \E index \in 0..Len(proc[p].chain), block \in FileBlocks :
         /\ position(proc[p].chain, block.identifier) = 0
         /\ proc' = [proc EXCEPT ![p].chain = VecInsert(@, index, block)]
    /\ file' = file
    /\ Step(p, "insert", "Ok")

\* prune() on a live chain
PruneLive(p) ==
    /\ proc[p].pc = "live"
    /\ proc' = [proc EXCEPT ![p].chain = prune(kind, @, group_size)]
    /\ file' = file
    /\ Step(p, "prune", "Ok")

\* write() on a live chain
Write(p) ==
    /\ proc[p].pc = "live"
    /\ proc' = proc
    /\ LET r == write(proc[p].chain, proc[p].bound, file)
       IN /\ file' = r.file
          /\ Step(p, "write", r.ret)

\* unlock(): opens the file again and unlocks that new open file, which
\* holds no lock; the lock of another open file is not released by it
Unlock(p) ==
    /\ proc[p].pc = "live"
    /\ proc' = [proc EXCEPT ![p].pc = "unlocked"]
    /\ file' = file
    /\ Step(p, "unlock", "Ok")

\* the chain goes out of scope; it owns no open file
Drop(p) ==
    /\ proc[p].pc \in {"live", "unlocked"}
    /\ proc' = [proc EXCEPT ![p] = Idle]
    /\ file' = file
    /\ Step(p, "drop", "Ok")

NextFile ==
    \E p \in DOMAIN proc :
        \/ CreateInPathOpen(p)
        \/ FromPathOpen(p)
        \/ LockExclusive(p)
        \/ CreateInPathReturn(p)
        \/ FromPathReturn(p)
        \/ FromBlocks(p)
        \/ Insert(p)
        \/ PruneLive(p)
        \/ Write(p)
        \/ Drop(p)

SpecFile == InitFile /\ [][NextFile]_vars

\* the directory is empty; several processes construct chains on it
InitLock ==
    /\ kind \in {"SectionChain", "DataChain"}
    /\ chain = <<>>
    /\ group_size \in GroupSizes
    /\ op = "new"
    /\ arg = [p |-> 0, file |-> AbsentFile]
    /\ ret = "none"
    /\ pre = <<>>
    /\ calls = 0
    /\ file = AbsentFile
    /\ proc = [p \in Procs |-> Idle]
    /\ secured = NoStore

NextLock ==
    \E p \in DOMAIN proc :
        \/ CreateInPathOpen(p)
        \/ FromPathOpen(p)
        \/ LockExclusive(p)
        \/ CreateInPathReturn(p)
        \/ FromPathReturn(p)
        \/ Write(p)
        \/ Unlock(p)
        \/ Drop(p)

SpecLock == InitLock /\ [][NextLock]_vars

\* ------------------------------------------------------------- SecuredData
\* threads that share the chain: thread 1 owns the SecuredData, the others
\* hold the Arc<Mutex<DataChain>> that chain() hands out
NThreads == 2

Threads == 1..NThreads

\* BlockIdentifier::name: the hash of immutable data, the name of structured
\* data, none for a link of a group digest
name(id) ==
    CASE id.tag = "ImmutableData" -> Some(id.key)
      [] id.tag \in {"StructuredData", "StructuredDataLedger"} -> Some(id.name)
      [] OTHER -> None

\* BlockIdentifier::hash: the content hash of the identifier
hash(id) == id.key

\* BlockIdentifier::is_ledger: structured data with the ledger bit
is_ledger(id) == id.tag = "StructuredDataLedger"

\* DataChain::find_name: the rightmost valid block with the name
find_name(c, n) ==
    LET hit(x) == x.valid /\ name(x.identifier).some /\ name(x.identifier).val = n
        hits == {i \in 1..Len(c) : hit(c[i])}
    IN IF hits = {} THEN None
       ELSE Some(c[CHOOSE i \in hits : \A j \in hits : j <= i])

\* the names data is looked up by
Names == {1, 2}

\* the blocks of the chains a SecuredData starts with: a valid link, valid
\* structured data with and without the ledger bit under one name, valid
\* immutable data, and structured data that is not valid
SecuredBlocks ==
    {[SignedBlock(Link(1), {1}) EXCEPT !.valid = TRUE],
     [SignedBlock(StructuredData(1, 1), {1}) EXCEPT !.valid = TRUE],
     [SignedBlock(StructuredDataLedger(2, 1), {1}) EXCEPT !.valid = TRUE],
     [SignedBlock(ImmutableData(2), {1}) EXCEPT !.valid = TRUE],
     SignedBlock(StructuredData(3, 2), {1})}

SecuredChains ==
    {c \in SeqsUpTo(SecuredBlocks, MaxBlocks) :
        \A i, j \in 1..Len(c) : c[i] = c[j] => i = j}

\* the data post_data is called with: structured data without the ledger
\* bit under either name, ledger data and immutable data
DataItems ==
    {[structured |-> TRUE, ledger |-> FALSE, hash |-> 4, name |-> n] : n \in Names}
        \cup {[structured |-> TRUE, ledger |-> TRUE, hash |-> 5, name |-> 1],
              [structured |-> FALSE, ledger |-> FALSE, hash |-> 2, name |-> 2]}

\* the DataIdentifier delete_data is called with
DataIdentifier(n) == [structured |-> TRUE, ledger |-> FALSE, hash |-> 0, name |-> n]

\* trim_previous_data(hash) for the data stored under its own hash: deletes
\* immutable data and ledger items
trim_previous_data(cs, data) ==
    IF data.hash \in cs /\ (~data.structured \/ data.ledger) THEN cs \ {data.hash}
    ELSE cs

\* a thread in no call
IdleThread == [pc |-> "idle", call |-> "none", data |-> DataIdentifier(0), found |-> None]

\* SecuredData over a chain and the chunks of its data blocks; no call runs
InitSecured ==
    /\ kind = "DataChain"
    /\ chain \in SecuredChains
    /\ group_size \in GroupSizes
    /\ op = "new"
    /\ arg = [t |-> 0, found |-> None]
    /\ ret = "none"
    /\ pre = <<>>
    /\ calls = 0
    /\ file = AbsentFile
    /\ proc = [t \in Threads |-> IdleThread]
    /\ secured = [cs |-> {hash(chain[i].identifier) :
                             i \in {j \in 1..Len(chain) : is_block(chain[j].identifier)}},
                  mutex |-> [holder |-> 0, poisoned |-> FALSE]]

\* what every step of thread t records
ThreadStep(t, o, r) ==
    /\ op' = o
    /\ arg' = [t |-> t, found |-> proc[t].found]
    /\ ret' = r
    /\ pre' = chain
    /\ UNCHANGED <<kind, group_size, file>>

\* delete_data up to the scrutinee of its if let: self.dc.lock().unwrap()
\* .find_name(data_id.name()); the guard is a temporary of the scrutinee and
\* lives to the end of the if let
DeleteDataLock ==
    /\ proc[1].pc = "idle"
    /\ calls < MaxCalls
    /\ secured.mutex = [holder |-> 0, poisoned |-> FALSE]
    /\ \E n \in Names :
         proc' = [proc EXCEPT ![1] = [pc |-> "matched", call |-> "delete_data",
                                      data |-> DataIdentifier(n),
                                      found |-> find_name(chain, n)]]
    /\ secured' = [secured EXCEPT !.mutex.holder = 1]
    /\ chain' = chain
    /\ calls' = calls + 1
    /\ ThreadStep(1, "lock", "Ok")

\* post_data up to the scrutinee of its if let; data that is not structured
\* data without the ledger bit returns Err(BadIdentifier) before any lock
PostDataLock ==
    /\ proc[1].pc = "idle"
    /\ calls < MaxCalls
    /\ \E data \in DataItems :
         IF data.structured /\ ~data.ledger
         THEN /\ secured.mutex = [holder |-> 0, poisoned |-> FALSE]
              /\ proc' = [proc EXCEPT ![1] = [pc |-> "matched", call |-> "post_data",
                                              data |-> data,
                                              found |-> find_name(chain, data.name)]]
              /\ secured' = [secured EXCEPT !.mutex.holder = 1]
              /\ ThreadStep(1, "lock", "Ok")
         ELSE /\ proc' = proc
              /\ secured' = secured
              /\ ThreadStep(1, "post_data", "BadIdentifier")
    /\ chain' = chain
    /\ calls' = calls + 1

\* the rest of the call once the if let is left: the guard of the scrutinee
\* is dropped; delete_data returns, post_data trims and stores the data
Leave(r) ==
    /\ proc' = [proc EXCEPT ![1] = IdleThread]
    /\ secured' =
          [cs |-> IF proc[1].call = "post_data"
                  THEN trim_previous_data(secured.cs, proc[1].data) \cup {proc[1].data.hash}
                  ELSE secured.cs,
           mutex |-> [holder |-> 0, poisoned |-> FALSE]]
    /\ ThreadStep(1, proc[1].call, r)

\* the body of the if let: on a block that is no ledger item the chunk is
\* deleted and the chain is to be locked again; otherwise the if let is left
IfLetBody ==
    /\ proc[1].pc = "matched"
    /\ LET f == proc[1].found
       IN IF f.some /\ ~is_ledger(f.val.identifier)
          THEN /\ secured' = [secured EXCEPT !.cs = @ \ {hash(f.val.identifier)}]
               /\ proc' = [proc EXCEPT ![1].pc = "relock"]
               /\ ThreadStep(1, "cs.delete", "Ok")
          ELSE Leave(IF proc[1].call = "delete_data" THEN "NoFile" ELSE "Ok")
    /\ chain' = chain
    /\ calls' = calls

\* self.dc.lock().unwrap().remove(block_id.identifier()) inside the if let:
\* a free mutex is taken, the block removed and the call left; locking a
\* mutex the thread holds does not return, it deadlocks or panics, and the
\* panic drops the first guard and poisons the mutex
LockAgain ==
    /\ proc[1].pc = "relock"
    /\ secured.mutex.holder \in {0, 1}
    /\ IF secured.mutex.holder = 0
       THEN /\ chain' = remove(chain, proc[1].found.val.identifier)
            /\ Leave("Ok")
       ELSE /\ chain' = chain
            /\ \E outcome \in {"deadlocked", "panicked"} :
                 /\ proc' = [proc EXCEPT ![1].pc = outcome]
                 /\ secured' = IF outcome = "panicked"
                               THEN [secured EXCEPT !.mutex = [holder |-> 0, poisoned |-> TRUE]]
                               ELSE secured
                 /\ ThreadStep(1, proc[1].call, outcome)
    /\ calls' = calls

\* chain.lock().unwrap() by a thread that holds the Arc: waits for a held
\* mutex, panics on a poisoned one
HandleLock(t) ==
    /\ proc[t].pc = "idle"
    /\ secured.mutex.holder = 0
    /\ IF secured.mutex.poisoned
       THEN /\ proc' = [proc EXCEPT ![t].pc = "panicked"]
            /\ secured' = secured
            /\ ThreadStep(t, "lock", "panicked")
       ELSE /\ proc' = [proc EXCEPT ![t].pc = "holding"]
            /\ secured' = [secured EXCEPT !.mutex.holder = t]
            /\ ThreadStep(t, "lock", "Ok")
    /\ chain' = chain
    /\ calls' = calls

\* remove(data_id) through the guard, which is dropped after the call
HandleRemove(t) ==
    /\ proc[t].pc = "holding"
    /\ \E i \in 1..Len(chain) : chain' = remove(chain, chain[i].identifier)
    /\ proc' = [proc EXCEPT ![t].pc = "idle"]
    /\ secured' = [secured EXCEPT !.mutex.holder = 0]
    /\ calls' = calls
    /\ ThreadStep(t, "remove", "Ok")

\* the guard dropped without a change to the chain
HandleUnlock(t) ==
    /\ proc[t].pc = "holding"
    /\ chain' = chain
    /\ proc' = [proc EXCEPT ![t].pc = "idle"]
    /\ secured' = [secured EXCEPT !.mutex.holder = 0]
    /\ calls' = calls
    /\ ThreadStep(t, "unlock", "Ok")

NextSecured ==
    \/ DeleteDataLock
    \/ PostDataLock
    \/ IfLetBody
    \/ LockAgain
    \/ \E t \in Threads \ {1} : HandleLock(t)
    \/ \E t \in Threads \ {1} : HandleRemove(t)
    \/ \E t \in Threads \ {1} : HandleUnlock(t)

SpecSecured == InitSecured /\ [][NextSecured]_vars

\* ======================================================== stated properties
\* the signer keys of a block, as a set
SignerKeys(blk) == {blk.proofs[i].key : i \in 1..Len(blk.proofs)}

\* the quorum rule as the specification writes it: m common signers, N
\* proofs of the proving block, group size G
Admissible(B, L, G) ==
    LET m == Cardinality(SignerKeys(B) \cap SignerKeys(L))
        N == Len(L.proofs)
    IN (2 * m >= N) \/ (m >= G)

Ran(o) == op = o /\ calls > 0

\* the identifier of the last vote is held by a block of chain c
Held(c) == position(c, arg.identifier) # 0

\* the proof of the last vote is in the block of its identifier in chain c
Recorded(c) ==
    \E i \in 1..Len(c) :
        /\ c[i].identifier = arg.identifier
        /\ \E j \in 1..Len(c[i].proofs) : c[i].proofs[j] = arg.proof

\* C1: in every state add_vote reaches from the empty SectionChain, every
\* valid block other than the first has an earlier valid block against which
\* it satisfies the quorum rule.
C1_QuorumInvariant ==
    kind = "SectionChain" =>
        \A i \in 2..Len(chain) :
            chain[i].valid =>
                \E j \in 1..(i - 1) :
                    chain[j].valid /\ Admissible(chain[i], chain[j], group_size)

\* C2: after any sequence of add_vote or add_node_block calls no block holds
\* two proofs with the same public key.
C2_ProofSetUniqueness ==
    \A i \in 1..Len(chain) :
        \A a, b \in 1..Len(chain[i].proofs) :
            a # b => chain[i].proofs[a].key # chain[i].proofs[b].key

\* a correctly signed vote met a block that already held its key
C2_Witness ==
    /\ Ran("add_node_block")
    /\ validate(arg)
    /\ Held(pre)
    /\ HasKey(pre[position(pre, arg.identifier)].proofs, arg.proof.key)
    /\ Len(pre[position(pre, arg.identifier)].proofs) >= 2

\* C3: after any sequence of add_vote or add_node_block calls no two blocks
\* of the chain have equal identifiers.
C3_IdentifierUniqueness ==
    \A i, j \in 1..Len(chain) :
        i # j => chain[i].identifier # chain[j].identifier

\* a vote arrived for an identifier the chain already held, in a chain of
\* several blocks
C3_Witness ==
    /\ Ran("add_vote")
    /\ validate(arg)
    /\ ~is_self_vote(arg)
    /\ Held(pre)
    /\ Len(chain) >= 3

\* C4: on a non-empty SectionChain a correctly signed self-vote returns None
\* and leaves the chain as it was, whether or not its identifier is held.
C4_SelfVoteRejected ==
    (Ran("add_vote") /\ pre # <<>> /\ validate(arg) /\ is_self_vote(arg))
        => (ret = None /\ chain = pre)

\* a self-vote for an identifier held by a block that is not the last one
C4_Witness ==
    /\ Ran("add_vote")
    /\ pre # <<>>
    /\ validate(arg)
    /\ is_self_vote(arg)
    /\ Held(pre)
    /\ position(pre, arg.identifier) < Len(pre)

\* C5: add_vote of a correctly signed vote, self-vote or not, on the empty
\* SectionChain leaves a chain of exactly one block, holding that one proof
\* and marked valid, and returns Some(identifier).
C5_GenesisAccumulation ==
    (Ran("add_vote") /\ pre = <<>> /\ validate(arg))
        => /\ chain = <<[identifier |-> arg.identifier,
                         proofs |-> <<arg.proof>>,
                         valid |-> TRUE]>>
           /\ ret = Some(arg.identifier)

\* the genesis block was made by a self-vote
C5_Witness ==
    /\ Ran("add_vote")
    /\ pre = <<>>
    /\ validate(arg)
    /\ is_self_vote(arg)
    /\ Len(chain) = 1

\* C6: add_vote returns Some(identifier) whenever the proof of the vote was
\* recorded by the call, and None exactly when nothing was recorded.
C6_ReturnValue ==
    Ran("add_vote") =>
        LET recorded == Recorded(chain) /\ ~Recorded(pre)
        IN /\ recorded => ret = Some(arg.identifier)
           /\ ret = None <=> ~recorded

\* C7: a correctly signed non-self vote whose key the block of its identifier
\* already holds returns None and leaves the chain exactly as it was.
C7_DuplicateNoChange ==
    ( /\ Ran("add_vote")
      /\ validate(arg)
      /\ ~is_self_vote(arg)
      /\ Held(pre)
      /\ HasKey(pre[position(pre, arg.identifier)].proofs, arg.proof.key) )
        => (ret = None /\ chain = pre)

\* C8: add_vote and add_node_block given a vote whose signature does not
\* verify return None and leave the chain unchanged, the empty chain included.
C8_InvalidSignatureNoChange ==
    ( /\ Ran("add_vote") \/ Ran("add_node_block")
      /\ ~verify_detached(arg.proof.sig, serialise_identifier(arg.identifier), arg.proof.key) )
        => (ret = None /\ chain = pre)

\* a forged vote for an identifier the chain holds
C8_Witness ==
    /\ Ran("add_node_block")
    /\ ~verify_detached(arg.proof.sig, serialise_identifier(arg.identifier), arg.proof.key)
    /\ Held(pre)
    /\ Len(pre) >= 2

\* what C9 compares: identifiers in order, signer keys and valid flag per block
Outcome(c) ==
    [i \in 1..Len(c) |->
        [identifier |-> c[i].identifier, keys |-> SignerKeys(c[i]), valid |-> c[i].valid]]

\* C9: from any reachable SectionChain, two correctly signed votes for one
\* identifier by different keys give the same identifiers, signer sets and
\* valid flags in either order.
C9_OrderIndependence ==
    kind = "SectionChain" =>
        \A id \in LinkDescriptor :
            \A k1, k2 \in Keys :
                k1 # k2 =>
                    LET v1 == NodeBlock_new(k1, k1, id)
                        v2 == NodeBlock_new(k2, k2, id)
                        c12 == add_vote(add_vote(chain, group_size, v1).chain, group_size, v2).chain
                        c21 == add_vote(add_vote(chain, group_size, v2).chain, group_size, v1).chain
                    IN Outcome(c12) = Outcome(c21)

\* C10: validate_block_with_proof(B, L, G) is true exactly when 2*m >= N or
\* m >= G, m the number of signer keys common to B and L and N the number of
\* proofs of L, for the SectionChain and for the DataChain.
C10_QuorumRule ==
    Ran("validate_block_with_proof")
        => (ret <=> Admissible(arg.block, arg.proof, group_size))

\* the last add_vote got a correctly signed vote that was rejected neither as
\* a self-vote nor as a duplicate
Accepted ==
    /\ Ran("add_vote")
    /\ validate(arg)
    /\ ~(pre # <<>> /\ is_self_vote(arg))
    /\ ~(Held(pre) /\ HasKey(pre[position(pre, arg.identifier)].proofs, arg.proof.key))

\* C11: a correctly signed non-self vote for an identifier a non-empty
\* SectionChain does not hold appends one block with that single proof at the
\* end and returns Some(identifier); the block is valid only if it is the
\* second block and the first block is valid.
C11_NewIdentifierPath ==
    (Accepted /\ pre # <<>> /\ ~Held(pre))
        => /\ Len(chain) = Len(pre) + 1
           /\ SubSeq(chain, 1, Len(pre)) = pre
           /\ chain[Len(chain)].identifier = arg.identifier
           /\ chain[Len(chain)].proofs = <<arg.proof>>
           /\ ret = Some(arg.identifier)
           /\ chain[Len(chain)].valid => (Len(pre) = 1 /\ pre[1].valid)

\* the valid blocks of chain c before index p, most recent last
ValidBefore(c, p) == {i \in 1..(p - 1) : c[i].valid}

FindHas(c, id, k) == find(c, id).some /\ HasKey(find(c, id).val.proofs, k)

\* C13: after an accepted add_vote(v), find(v.identifier) returns a block
\* with that identifier holding v's key, and every later add_vote keeps it so.
C13_FindObservesVote ==
    /\ [](Accepted => /\ FindHas(chain, arg.identifier, arg.proof.key)
                      /\ find(chain, arg.identifier).val.identifier = arg.identifier)
    /\ [][kind = "SectionChain" =>
            \A id \in LinkDescriptor : \A k \in Keys :
                FindHas(chain, id, k) => FindHas(chain', id, k)]_vars

\* a vote was accepted into a block that was not the last of a chain whose
\* other blocks hold earlier votes
C13_Witness ==
    /\ Accepted
    /\ Held(pre)
    /\ position(pre, arg.identifier) < Len(pre)
    /\ Len(chain) = 3

\* ---- mark_blocks_valid, prune, validate_ownership, merge_chain
\* the block counts as a link: every SectionChain block is one
IsLinkBlock(b) == kind = "SectionChain" \/ is_link(b.identifier)

HasLink(c) == \E i \in 1..Len(c) : IsLinkBlock(c[i])

FirstLink(c) ==
    c[CHOOSE i \in 1..Len(c) :
        IsLinkBlock(c[i]) /\ \A j \in 1..(i - 1) : ~IsLinkBlock(c[j])]

\* block i of c without its invalid signatures
Cleaned(c, i) == remove_invalid_signatures(c[i])

\* the proving link when block i of c is visited: the first link, replaced
\* by every visited link that was admissible
RECURSIVE ProvingLinkAt(_, _)
ProvingLinkAt(c, i) ==
    IF i = 1 THEN FirstLink(c)
    ELSE LET before == ProvingLinkAt(c, i - 1)
         IN IF IsLinkBlock(c[i - 1]) /\ Admissible(Cleaned(c, i - 1), before, group_size)
            THEN Cleaned(c, i - 1)
            ELSE before

\* block i of c is admissible with respect to the proving link current when
\* it is visited
AdmissibleAt(c, i) == Admissible(Cleaned(c, i), ProvingLinkAt(c, i), group_size)

\* C14: on a chain with at least one link, mark_blocks_valid leaves each
\* block valid exactly when the block, without its invalid signatures, is
\* admissible with respect to the proving link current when it is visited.
C14_MarkBlocksValidSemantics ==
    (Ran("mark_blocks_valid") /\ HasLink(pre))
        => /\ Len(chain) = Len(pre)
           /\ \A i \in 1..Len(pre) : chain[i].valid = AdmissibleAt(pre, i)

\* C15: mark_blocks_valid empties a chain without a link; on a chain with a
\* link it removes no block and changes only valid flags and proofs with
\* invalid signatures.
C15_MarkBlocksValidFrame ==
    Ran("mark_blocks_valid")
        => IF HasLink(pre)
           THEN /\ Len(chain) = Len(pre)
                /\ \A i \in 1..Len(pre) :
                      /\ chain[i].identifier = pre[i].identifier
                      /\ chain[i].proofs = Cleaned(pre, i).proofs
           ELSE chain = <<>>

\* C16: a second call of mark_blocks_valid changes nothing the first call
\* left.
C16_MarkIdempotent ==
    Ran("mark_blocks_valid") => mark_blocks_valid(kind, chain, group_size) = chain

\* C17: after prune the chain holds the blocks mark_blocks_valid marks valid,
\* in their order, all valid; a chain whose blocks are all admissible keeps
\* all of them.
C17_PruneKeepsValid ==
    Ran("prune")
        => /\ chain = SelectSeq(mark_blocks_valid(kind, pre, group_size), LAMBDA x : x.valid)
           /\ \A i \in 1..Len(chain) : chain[i].valid
           /\ (HasLink(pre) /\ \A i \in 1..Len(pre) : AdmissibleAt(pre, i))
                 => Len(chain) = Len(pre)

\* the number of proofs of block b signed by keys of group g, doubled,
\* exceeds the number of its proofs
Majority(b, g) == 2 * Cardinality(SignerKeys(b) \cap g) > Len(b.proofs)

\* C18: validate_ownership returns true exactly when the marked chain has a
\* valid link and more than half of the proofs of the most recent one are by
\* keys of my_group; one link signed only by keys of my_group gives true, a
\* group holding no more than half of its signers gives false.
C18_ValidateOwnership ==
    Ran("validate_ownership")
        => /\ ret = (/\ last_valid_link(kind, chain).some
                     /\ Majority(last_valid_link(kind, chain).val, arg))
           /\ (/\ Len(pre) = 1
               /\ IsLinkBlock(pre[1])
               /\ Cleaned(pre, 1).proofs # <<>>
               /\ SignerKeys(Cleaned(pre, 1)) \subseteq arg) => ret = TRUE
           /\ (/\ Len(pre) = 1
               /\ IsLinkBlock(pre[1])
               /\ ~Majority(Cleaned(pre, 1), arg)) => ret = FALSE

\* a is b with some blocks left out
RECURSIVE IsSubSeq(_, _)
IsSubSeq(a, b) ==
    IF a = <<>> THEN TRUE
    ELSE IF b = <<>> THEN FALSE
    ELSE IF Head(a) = Head(b) THEN IsSubSeq(Tail(a), Tail(b))
    ELSE IsSubSeq(a, Tail(b))

\* C19: merge_chain deletes nothing from self: the blocks self held are
\* still there with their proofs and valid flags, in the same order.
C19_MergeNeverDeletes == Ran("merge_chain") => IsSubSeq(pre, chain)

\* a merge inserted a block into a chain of two blocks
C19_Witness ==
    /\ Ran("merge_chain")
    /\ Len(pre) = 2
    /\ Len(chain) > Len(pre)

\* C20: merge_chain leaves the first block of a non-empty self where it was.
C20_MergeKeepsGenesis ==
    (Ran("merge_chain") /\ pre # <<>>) => (chain # <<>> /\ chain[1] = pre[1])

\* C21: merging into a DataChain that is one valid link, the data blocks of
\* the pruned other chain that are admissible with respect to that link all
\* end up in self in the order they had in other, and valid_len() is 1 + k.
C21_MergeInChainOrder ==
    (/\ Ran("merge_chain")
     /\ kind = "DataChain"
     /\ Len(pre) = 1
     /\ is_link(pre[1].identifier)
     /\ pre[1].valid)
        => LET mergeable ==
                   SelectSeq(prune(kind, arg, group_size),
                             LAMBDA x : /\ is_block(x.identifier)
                                        /\ Admissible(x, pre[1], group_size))
           IN /\ SelectSeq(chain, LAMBDA x : is_block(x.identifier)) = mergeable
              /\ valid_len(chain) = 1 + Len(mergeable)

\* ---- persistence
\* C22: after a successful write() of a chain bound to a path, whatever the
\* file held before, from_path on the same directory yields a chain with the
\* same blocks, proofs and valid flags in the same order.
C22_PersistenceRoundTrip ==
    (op = "write" /\ ret = "Ok")
        => /\ file.exists
           /\ from_path_read(kind, file) = [ret |-> "Ok", chain |-> chain]

\* a non-empty chain was written over a longer earlier content
C22_Witness ==
    /\ op = "write"
    /\ ret = "Ok"
    /\ chain # <<>>
    /\ Len(arg.file.bytes) > Len(serialise(chain))

\* C23: the exclusive lock taken by create_in_path or from_path is held
\* while the returned chain is live, and no two chains on the same file are
\* live together.
C23_LockExclusivity ==
    \A p \in DOMAIN proc :
        (proc[p].pc = "live" /\ proc[p].bound)
            => /\ file.lock = p
               /\ \A q \in DOMAIN proc \ {p} : ~(proc[q].pc = "live" /\ proc[q].bound)

\* C24: after a successful write() the file holds exactly the serialisation
\* of the chain, also when it held a longer content before.
C24_WriteOverwritesWhole ==
    (op = "write" /\ ret = "Ok") => file.bytes = serialise(chain)

\* C25: write() on a chain without a path returns NoFile and leaves the file
\* and the chain as they were.
C25_WriteWithoutPath ==
    (op = "write" /\ ~proc[arg.p].bound)
        => /\ ret = "NoFile"
           /\ file = arg.file
           /\ chain = pre

\* write() was called on a non-empty chain made by from_blocks while a file
\* written by an earlier chain exists
C25_Witness ==
    /\ op = "write"
    /\ ~proc[arg.p].bound
    /\ chain # <<>>
    /\ file.exists
    /\ file.bytes # <<>>

\* C26: DataChain.remove(id) leaves the chain as it was when id is a link;
\* when id is a data identifier it removes the blocks with that identifier
\* and no other, keeping the order of the rest, and a vote for id added
\* afterwards makes a fresh block that is not valid.
C26_Remove ==
    Ran("remove")
        => /\ is_link(arg) => chain = pre
           /\ is_block(arg) =>
                 /\ \A i \in 1..Len(chain) : chain[i].identifier # arg
                 /\ IsSubSeq(chain, pre)
                 /\ Len(chain) = Cardinality({i \in 1..Len(pre) : pre[i].identifier # arg})
                 /\ \A k \in Keys :
                       LET block == NodeBlock_new(k, k, arg)
                           r == add_node_block(chain, group_size, block)
                       IN /\ r.chain = Append(chain, [identifier |-> arg,
                                                      proofs |-> <<block.proof>>,
                                                      valid |-> FALSE])
                          /\ r.ret = None

\* remove was called with a data identifier that two blocks of the chain
\* carry
C26_Witness ==
    /\ Ran("remove")
    /\ is_block(arg)
    /\ Len(pre) = 2
    /\ pre[1].identifier = arg
    /\ pre[2].identifier = arg
    /\ chain = <<>>

C28_RemoveInvalidSignatures ==
    op = "remove_invalid_signatures" =>
        /\ chain[1].identifier = pre[1].identifier
        /\ chain[1].valid = pre[1].valid
        /\ chain[1].proofs =
               IF arg.fails THEN <<>>
               ELSE SelectSeq(pre[1].proofs,
                              LAMBDA proof :
                                  /\ proof.sig.by = proof.key
                                  /\ proof.sig.over =
                                         serialise_identifier(pre[1].identifier))

\* the number of times key k occurs in list s
Occurrences(s, k) == Cardinality({i \in 1..Len(s) : s[i] = k})

\* t is a permutation of s
IsPermutation(s, t) == \A k \in Keys : Occurrences(s, k) = Occurrences(t, k)

\* t is s with the repetitions removed
IsDeduplicated(s, t) ==
    \A k \in Keys : Occurrences(t, k) = (IF Occurrences(s, k) > 0 THEN 1 ELSE 0)

\* C29: create_link_descriptor returns the same descriptor for a non-empty
\* list of public keys and any permutation of it, and for a list with
\* repeated keys and the list with the repetitions removed.
C29_DescriptorDeterminism ==
    ( /\ op \in {"create_link_descriptor", "create_link_descriptor_xor"}
      /\ arg.group # <<>>
      /\ IsPermutation(arg.group, arg.other) \/ IsDeduplicated(arg.group, arg.other) )
    => ret.first = ret.second

\* the vote was made with the two halves of one key pair
OfKeyPair == arg.pub_key = arg.secret_key /\ ret.vote.identifier = arg.id

\* C30: the vote NodeBlock::new makes of a key pair and an identifier
\* validates; validating it against a different identifier, or with a
\* different signature in its proof, yields false.
C30_VoteRoundTrip ==
    /\ (op = "validate" /\ OfKeyPair) => ret.result
    /\ (op = "validate_detached" /\ OfKeyPair /\ arg.identifier # arg.id)
           => ~ret.result
    /\ (op = "validate_signature" /\ OfKeyPair /\ arg.sig # ret.vote.proof.sig)
           => ~ret.result

\* a vote validated, then refused for another variant over the same bytes
C30_Witness ==
    /\ op = "validate_detached"
    /\ OfKeyPair
    /\ arg.identifier.tag # arg.id.tag
    /\ arg.identifier.key = arg.id.key
    /\ arg.identifier.name = arg.id.name
    /\ ~ret.result

\* add_node_block added the proof of a correctly signed vote by a new key to
\* an existing block of a chain longer than 1
AddedToExisting ==
    /\ Ran("add_node_block")
    /\ validate(arg)
    /\ Len(pre) > 1
    /\ Held(pre)
    /\ ~HasKey(pre[position(pre, arg.identifier)].proofs, arg.proof.key)

\* the valid links of c before position p
ValidLinksBefore(c, p) == {i \in 1..(p - 1) : is_link(c[i].identifier) /\ c[i].valid}

\* the nearest of them
NearestValidLink(c, p) ==
    CHOOSE i \in ValidLinksBefore(c, p) : \A j \in ValidLinksBefore(c, p) : j <= i

\* C31: when add_node_block adds a proof with a new signer key to an existing
\* block of a chain longer than 1 and strictly more than half of the signers
\* of the nearest valid link before the block have then signed the block, the
\* call sets the block valid and returns Some(identifier); when it returns
\* None for such a vote the block is not valid.
C31_ValidDuringAccumulation ==
    AddedToExisting
        => LET p == position(pre, arg.identifier)
               signers == SignerKeys(pre[p]) \cup {arg.proof.key}
           IN /\ ( /\ ValidLinksBefore(pre, p) # {}
                   /\ LET L == pre[NearestValidLink(pre, p)]
                      IN 2 * Cardinality(signers \cap SignerKeys(L)) > Len(L.proofs) )
                 => (chain[p].valid /\ ret = Some(arg.identifier))
              /\ ret = None => ~chain[p].valid

\* a data block reached validity by its second vote, behind a valid link
C31_Witness ==
    /\ AddedToExisting
    /\ LET p == position(pre, arg.identifier)
       IN /\ ValidLinksBefore(pre, p) # {}
          /\ is_block(arg.identifier)
          /\ ~pre[p].valid
          /\ chain[p].valid
          /\ ret = Some(arg.identifier)

\* the identifiers of the blocks of c, in order
IdentifiersOf(c) == [i \in 1..Len(c) |-> c[i].identifier]

\* C32: validate_ownership does not purge: on any chain, one without a link
\* included, the sequence of block identifiers is the same before and after
\* the call.
C32_ValidateOwnershipKeepsBlocks ==
    Ran("validate_ownership") => IdentifiersOf(chain) = IdentifiersOf(pre)

\* C33: from_path never aborts: on a missing file and on a file whose
\* contents do not deserialise into a block sequence, the empty file that
\* create_in_path leaves included, it returns an error and produces no chain.
C33_FromPathNeverAborts ==
    op = "from_path"
        => /\ ret \in {"Ok", "Io", "Deserialise"}
           /\ (~arg.file.exists \/ ~deserialise(arg.file.bytes).ok)
                 => (ret \in {"Io", "Deserialise"} /\ proc[arg.p] = Idle)

\* C34: delete_data and post_data, called for a name whose rightmost valid
\* block is not a ledger item, remove that block from the chain and return;
\* the call never waits for the chain mutex while it still holds it.
C34_SecuredDataCompletes ==
    /\ \A t \in DOMAIN proc :
          proc[t].call \in {"delete_data", "post_data"}
              => /\ ~(proc[t].pc = "relock" /\ secured.mutex.holder = t)
                 /\ proc[t].pc \notin {"deadlocked", "panicked"}
    /\ ( /\ op \in {"delete_data", "post_data"}
         /\ arg.found.some
         /\ arg.found.val.identifier.tag # "StructuredDataLedger" )
          => /\ ret = "Ok"
             /\ \A i \in 1..Len(chain) : chain[i] # arg.found.val

\* C35: whenever add_node_block sets a block valid, the block is the only
\* block of the chain and a link, or a valid link earlier in the chain makes
\* it admissible; a link after the block never makes it valid.
C35_OnlyEarlierLinks ==
    (Ran("add_node_block") /\ kind = "DataChain" /\ ret.some)
        => LET p == position(chain, arg.identifier)
           IN /\ chain[p].valid
              /\ \/ (Len(chain) = 1 /\ is_link(chain[p].identifier))
                 \/ \E i \in ValidLinksBefore(chain, p) :
                       Admissible(chain[p], chain[i], group_size)

\* C36: in every state add_vote reaches from the empty SectionChain the first
\* block is valid, and every later add_vote leaves the first block in place
\* with its valid flag set.
C36_GenesisStaysFirst ==
    /\ []((kind = "SectionChain" /\ chain # <<>>) => chain[1].valid)
    /\ [][(kind = "SectionChain" /\ chain # <<>>)
            => /\ chain'[1].identifier = chain[1].identifier
               /\ chain'[1].valid]_vars

\* C37: validate_block_with_proof(B, L, G) is false when B and L have no
\* signer key in common, for every group size, 0 included, and every proving
\* block, one without proofs included.
C37_NoCommonSignerNoQuorum ==
    ( /\ Ran("validate_block_with_proof")
      /\ SignerKeys(arg.block) \cap SignerKeys(arg.proof) = {} )
        => ~ret

\* chain c holds a valid block with identifier id
HoldsValid(c, id) == \E i \in 1..Len(c) : c[i].identifier = id /\ c[i].valid

\* C38: in a SectionChain a block whose valid flag is true keeps it after
\* every later add_vote, whether the call is rejected, adds a proof to that
\* block or concerns another identifier.
C38_ValidityMonotone ==
    [][kind = "SectionChain"
         => \A id \in LinkDescriptor : HoldsValid(chain, id) => HoldsValid(chain', id)]_vars

\* no two blocks of c have the same identifier
UniqueIdentifiers(c) ==
    \A i, j \in 1..Len(c) : c[i].identifier = c[j].identifier => i = j

\* C39: when self and other each hold no identifier twice, self holds no
\* identifier twice after self.merge_chain(other), also when other holds a
\* data block whose identifier is in self.
C39_MergeKeepsIdentifiersUnique ==
    (Ran("merge_chain") /\ kind = "DataChain"
        /\ UniqueIdentifiers(pre) /\ UniqueIdentifiers(arg))
        => UniqueIdentifiers(chain)

\* C40: after prune() a DataChain is empty or its first block is a link: no
\* data block remains in front of the first link.
C40_PrunedStartsWithLink ==
    (Ran("prune") /\ kind = "DataChain")
        => (chain = <<>> \/ is_link(chain[1].identifier))

====
